---- MODULE Spec2Model ----
(***************************************************************************)
(* Model of the two load-test scripts of services/device:                  *)
(*   create_devices.py  the provisioner (organization, devices, artifact)  *)
(*   locustfile.py      the telemetry replayer (one DeviceUser)            *)
(* The device service and the load harness are the environment: every      *)
(* HTTP response and every harness call is a nondeterministic input.       *)
(* Responses the service answers with 200/201 carry the JSON body section  *)
(* 6 of the specification gives them (id, and uid for a device).           *)
(***************************************************************************)
EXTENDS Integers, Sequences, FiniteSets, TLC

VARIABLES
    pc,         \* provisioner: position in main()/create_devices()
    args,       \* provisioner: parsed command line, [num, org]
    org_id,     \* provisioner: main's org_id (an option)
    i,          \* provisioner: loop index of create_devices
    devices,    \* provisioner: the result list of create_devices
    artifact,   \* provisioner: content of the output file (an option)
    stdout,     \* provisioner: printed lines, in order
    trace,      \* provisioner: HTTP exchanges and sleeps, in program order
    exit_code,  \* provisioner: process exit status (an option)
    file,       \* replayer: what open("devices.json") + json.load yields
    u_pc,       \* replayer: the user's position ("new", "started")
    u_devices,  \* replayer: self.devices (an option)
    u_device,   \* replayer: self.device (an option)
    u_device_uid, \* replayer: self.device_uid (an option)
    quit_calls, \* replayer: number of environment.runner.quit() calls
    u_stdout,   \* replayer: printed lines, in order
    posts,      \* replayer: POSTs issued to the ingestion endpoint, in order
    reports,    \* replayer: response.success()/failure() calls, in order
    invocations,\* replayer: send task invocations by the harness
    raised      \* replayer: exceptions escaping the send task

pvars == <<pc, args, org_id, i, devices, artifact, stdout, trace, exit_code>>
uvars == <<file, u_pc, u_devices, u_device, u_device_uid, quit_calls,
           u_stdout, posts, reports, invocations, raised>>
vars == <<pvars, uvars>>

\* ------------------------------------------------------------------ bounds
MaxNum == 5
FaultWindow == 4
MaxFile == 3
MaxSends == 3

\* ------------------------------------------------------- program constants
ProgressEvery == 100
SerialWidth == 4
PauseMs == 100

\* ------------------------------------------------------------ option type
None == <<>>
Some(v) == <<v>>
IsSome(o) == o # None
Get(o) == o[1]

\* ------------------------------------------------------------------ inputs
StatusCodes == {200, 201, 202, 500}
OrgArgs == {None, Some(0), Some(1)}
OrgIds == {0, 2}
\* uids a service that does not echo the request's uid may answer with
ServerUids == {0}

\* -------------------------------------------------------- create_devices.py
\* Python truthiness of args.org in "args.org if args.org else ..."
OrgSupplied(org) == IsSome(org) /\ Get(org) # 0

\* mutant: every 2xx status counts as created
OrgCreatedAny2xx(status) == status \in 200..299

\* create_organization's test of response.status_code
OrgCreated(status) == status \in {200, 201}

\* mutant: every 2xx status counts as created
DeviceCreatedAny2xx(status) == status \in 200..299

\* create_devices' test of response.status_code
DeviceCreated(status) == status \in {200, 201}

\* str(uuid.uuid4()): the k-th identifier generated, distinct from all others
Uuid4(k) == k + 1

RECURSIVE Digits(_)
\* decimal digits of n, most significant first
Digits(n) == IF n < 10 THEN <<n>> ELSE Digits(n \div 10) \o <<n % 10>>

RECURSIVE ZeroPad(_, _)
\* left-pad with zeros to at least width w
ZeroPad(ds, w) == IF Len(ds) >= w THEN ds ELSE ZeroPad(<<0>> \o ds, w)

\* mutant: the serial numbers devices from 1
SerialOneBased(n) == <<"LOADTEST">> \o ZeroPad(Digits(n + 1), SerialWidth)

\* f"LOADTEST{i:04d}"
Serial(n) == <<"LOADTEST">> \o ZeroPad(Digits(n), SerialWidth)

DevicePayload(uid, n, org) ==
    [uid |-> uid, serial |-> Serial(n), organization_id |-> org,
     allow_updates |-> TRUE, active |-> TRUE]

OrgPayload ==
    [name |-> "Load Test Organization", uri |-> "load-test-org", persist |-> TRUE]

\* the record appended for a successful response
DeviceRecord(device_data, serial) ==
    [id |-> device_data.id, uid |-> device_data.uid, serial |-> serial]

ProgressDue(n) == (n + 1) % ProgressEvery = 0

Exchange(url, payload, status, body) ==
    [op |-> "POST", url |-> url, payload |-> payload, status |-> status, body |-> body]

Sleep(ms) ==
    [op |-> "sleep", url |-> "", payload |-> ms, status |-> 0, body |-> 0]

Line(kind, n, status) == [kind |-> kind, n |-> n, status |-> status]

\* the responses the service may give to the request for index n
DeviceBodies(uid, n) ==
    IF n < FaultWindow
    THEN {[id |-> n + 1, uid |-> u] : u \in {uid} \cup ServerUids}
    ELSE {[id |-> n + 1, uid |-> uid]}

DeviceStatuses(n) == IF n < FaultWindow THEN StatusCodes ELSE {200}

\* the process starts in main() with the parsed command line
Start(nums, orgs) ==
    /\ pc = "main"
    /\ args \in [num : nums, org : orgs]
    /\ org_id = None
    /\ i = 0
    /\ devices = <<>>
    /\ artifact = None
    /\ stdout = <<>>
    /\ trace = <<>>
    /\ exit_code = None

PInit == Start(0..MaxNum, OrgArgs)

\* main(), --org given and truthy: the organization step is skipped
MainUseOrg ==
    /\ pc = "main"
    /\ OrgSupplied(args.org)
    /\ org_id' = Some(Get(args.org))
    /\ stdout' = Append(stdout, Line("setting_up", args.num, 0))
    /\ pc' = "create_devices"
    /\ UNCHANGED <<args, i, devices, artifact, trace, exit_code>>
    /\ UNCHANGED uvars

\* main(), no usable --org: create_organization is called
MainCallCreateOrganization ==
    /\ pc = "main"
    /\ ~OrgSupplied(args.org)
    /\ stdout' = Append(stdout, Line("setting_up", args.num, 0))
    /\ pc' = "create_organization"
    /\ UNCHANGED <<args, org_id, i, devices, artifact, trace, exit_code>>
    /\ UNCHANGED uvars

\* create_organization(): one POST; fatal on failure, else returns the id
CreateOrganization ==
    /\ pc = "create_organization"
    /\ \E status \in StatusCodes, id \in OrgIds :
        /\ trace' = Append(trace, Exchange("organizations", OrgPayload, status, [id |-> id]))
        /\ IF ~OrgCreated(status)
           THEN /\ stdout' = Append(stdout, Line("org_failed", 0, status))
                /\ exit_code' = Some(1)
                /\ pc' = "exited"
                /\ UNCHANGED org_id
           ELSE /\ stdout' = Append(stdout, Line("org_created", id, status))
                /\ org_id' = Some(id)
                /\ pc' = "create_devices"
                /\ UNCHANGED exit_code
    /\ UNCHANGED <<args, i, devices, artifact>>
    /\ UNCHANGED uvars

\* create_devices(): entry, before the loop
CreateDevicesEnter ==
    /\ pc = "create_devices"
    /\ devices' = <<>>
    /\ i' = 0
    /\ stdout' = Append(stdout, Line("creating", args.num, 0))
    /\ pc' = "loop"
    /\ UNCHANGED <<args, org_id, artifact, trace, exit_code>>
    /\ UNCHANGED uvars

\* one iteration of the loop whose response is not 200/201: log, continue
DeviceFailed ==
    /\ pc = "loop"
    /\ i < args.num
    /\ \E status \in DeviceStatuses(i) :
        /\ ~DeviceCreated(status)
        /\ trace' = Append(trace,
               Exchange("devices", DevicePayload(Uuid4(i), i, Get(org_id)), status,
                        [id |-> 0, uid |-> 0]))
        /\ stdout' = Append(stdout, Line("device_failed", i + 1, status))
    /\ i' = i + 1
    /\ UNCHANGED <<pc, args, org_id, devices, artifact, exit_code>>
    /\ UNCHANGED uvars

\* one iteration of the loop whose response is 200/201: append, progress, sleep
DeviceSucceeded ==
    /\ pc = "loop"
    /\ i < args.num
    /\ \E status \in DeviceStatuses(i), device_data \in DeviceBodies(Uuid4(i), i) :
        /\ DeviceCreated(status)
        /\ trace' = Append(trace,
               Exchange("devices", DevicePayload(Uuid4(i), i, Get(org_id)), status,
                        device_data)) \o <<Sleep(PauseMs)>>
        /\ devices' = Append(devices, DeviceRecord(device_data, Serial(i)))
    /\ stdout' = IF ProgressDue(i)
                 THEN Append(stdout, Line("progress", i + 1, 0))
                 ELSE stdout
    /\ i' = i + 1
    /\ UNCHANGED <<pc, args, org_id, artifact, exit_code>>
    /\ UNCHANGED uvars

\* after the loop: json.dump(devices) to the output file, final print, return
SaveDevices ==
    /\ pc = "loop"
    /\ i >= args.num
    /\ artifact' = Some(devices)
    /\ stdout' = Append(stdout, Line("created_total", Len(devices), 0))
    /\ pc' = "returned"
    /\ UNCHANGED <<args, org_id, i, devices, trace, exit_code>>
    /\ UNCHANGED uvars

\* main() after create_devices returned
MainComplete ==
    /\ pc = "returned"
    /\ stdout' = Append(stdout, Line("setup_complete", 0, 0))
    /\ exit_code' = Some(0)
    /\ pc' = "done"
    /\ UNCHANGED <<args, org_id, i, devices, artifact, trace>>
    /\ UNCHANGED uvars

Next ==
    \/ MainUseOrg
    \/ MainCallCreateOrganization
    \/ CreateOrganization
    \/ CreateDevicesEnter
    \/ DeviceFailed
    \/ DeviceSucceeded
    \/ SaveDevices
    \/ MainComplete

\* ------------------------------------------------------------ locustfile.py
\* the artifact a provisioning run of n devices writes when every uid is echoed
RECURSIVE SampleArtifact(_)
SampleArtifact(n) ==
    IF n = 0 THEN <<>>
    ELSE Append(SampleArtifact(n - 1),
                [id |-> n, uid |-> Uuid4(n - 1), serial |-> Serial(n - 1)])

\* what on_start may find at devices.json
FileChoices ==
    {[kind |-> "missing", data |-> <<>>], [kind |-> "unreadable", data |-> <<>>]}
    \cup {[kind |-> "json", data |-> SampleArtifact(n)] : n \in 0..MaxFile}

\* generate_message(): the two coin flips decide the optional fields
Messages ==
    {[ev |-> "check", rss |-> 20, ms |-> 1000000, s |-> 1, mm |-> 10000,
      ts |-> ts, temp |-> temp] : ts \in {None, Some(1)}, temp \in {None, Some(3550)}}

\* json.dumps(message): a string, not the mapping
JsonDumps(message) == <<"json", message>>

Envelope(device_uid, message) ==
    [device_uid |-> device_uid, message |-> JsonDumps(message), sent_via |-> "locust-test"]

\* mutant: 201 is accepted as well
IsSuccessCreated(status) == status \in {200, 201}

\* the response is reported as success on this status only
IsSuccess(status) == status = 200

\* the responses the ingestion endpoint may give
MessageResponses ==
    {[status |-> 200, text |-> "ok"], [status |-> 201, text |-> "created"],
     [status |-> 500, text |-> "error"], [status |-> 500, text |-> ""]}

\* response.success() / response.failure(error_msg), with the response it is about
Report(kind, status, text) == [kind |-> kind, status |-> status, text |-> text]

ULine(kind, serial, status, text) ==
    [kind |-> kind, serial |-> serial, status |-> status, text |-> text]

UInit ==
    /\ file \in FileChoices
    /\ u_pc = "new"
    /\ u_devices = None
    /\ u_device = None
    /\ u_device_uid = None
    /\ quit_calls = 0
    /\ u_stdout = <<>>
    /\ posts = <<>>
    /\ reports = <<>>
    /\ invocations = 0
    /\ raised = <<>>

\* the provisioner is not running
PIdle ==
    /\ pc = "off"
    /\ args = [num |-> 0, org |-> None]
    /\ org_id = None
    /\ i = 0
    /\ devices = <<>>
    /\ artifact = None
    /\ stdout = <<>>
    /\ trace = <<>>
    /\ exit_code = None

\* on_start(): open/json.load raises; the except branch logs and quits
OnStartLoadError ==
    /\ u_pc = "new"
    /\ file.kind # "json"
    /\ u_stdout' = u_stdout \o <<ULine("error_loading", <<>>, 0, ""),
                                 ULine("run_create_first", <<>>, 0, "")>>
    /\ quit_calls' = quit_calls + 1
    /\ u_pc' = "started"
    /\ UNCHANGED <<file, u_devices, u_device, u_device_uid, posts, reports, invocations, raised>>
    /\ UNCHANGED pvars

\* on_start(): the list is empty; log, quit, return before any selection
OnStartNoDevices ==
    /\ u_pc = "new"
    /\ file.kind = "json"
    /\ u_devices' = Some(file.data)
    /\ file.data = <<>>
    /\ u_stdout' = Append(u_stdout, ULine("no_devices", <<>>, 0, ""))
    /\ quit_calls' = quit_calls + 1
    /\ u_pc' = "started"
    /\ UNCHANGED <<file, u_device, u_device_uid, posts, reports, invocations, raised>>
    /\ UNCHANGED pvars

\* on_start(): random.choice picks one record; its uid is kept
OnStartPick ==
    /\ u_pc = "new"
    /\ file.kind = "json"
    /\ u_devices' = Some(file.data)
    /\ file.data # <<>>
    /\ \E k \in 1..Len(file.data) :
        /\ u_device' = Some(file.data[k])
        /\ u_device_uid' = Some(file.data[k].uid)
        /\ u_stdout' = Append(u_stdout, ULine("simulating", file.data[k].serial, 0, ""))
    /\ u_pc' = "started"
    /\ UNCHANGED <<file, quit_calls, posts, reports, invocations, raised>>
    /\ UNCHANGED pvars

\* mutant: the task picks a device anew on every invocation
SendDeviceMessageRepick ==
    /\ u_pc = "started"
    /\ invocations < MaxSends
    /\ IsSome(u_device_uid)
    /\ invocations' = invocations + 1
    /\ \E message \in Messages, response \in MessageResponses, k \in 1..Len(Get(u_devices)) :
        /\ u_device' = Some(Get(u_devices)[k])
        /\ u_device_uid' = Some(Get(u_devices)[k].uid)
        /\ posts' = Append(posts, Envelope(Get(u_devices)[k].uid, message))
        /\ reports' = Append(reports,
               Report(IF IsSuccess(response.status) THEN "success" ELSE "failure",
                      response.status, response.text))
        /\ u_stdout' = IF IsSuccess(response.status) THEN u_stdout
                       ELSE Append(u_stdout,
                                ULine("send_failed", Get(u_devices)[k].serial,
                                      response.status, response.text))
    /\ UNCHANGED <<file, u_pc, u_devices, quit_calls, raised>>
    /\ UNCHANGED pvars

\* send_device_message(): one POST, then success()/failure() by the status
SendDeviceMessage ==
    /\ u_pc = "started"
    /\ invocations < MaxSends
    /\ IsSome(u_device_uid)
    /\ invocations' = invocations + 1
    /\ \E message \in Messages, response \in MessageResponses :
        /\ posts' = Append(posts, Envelope(Get(u_device_uid), message))
        /\ IF IsSuccess(response.status)
           THEN /\ reports' = Append(reports, Report("success", response.status, response.text))
                /\ UNCHANGED u_stdout
           ELSE /\ reports' = Append(reports,
                       Report("failure", response.status, response.text))
                /\ u_stdout' = Append(u_stdout,
                       ULine("send_failed", Get(u_device).serial,
                             response.status, response.text))
    /\ UNCHANGED <<file, u_pc, u_devices, u_device, u_device_uid, quit_calls, raised>>
    /\ UNCHANGED pvars

\* mutant: device_uid defaults to null, so the task posts without a device
SendWithoutDevicePosts ==
    /\ u_pc = "started"
    /\ invocations < MaxSends
    /\ ~IsSome(u_device_uid)
    /\ invocations' = invocations + 1
    /\ \E message \in Messages :
        posts' = Append(posts, Envelope(None, message))
    /\ UNCHANGED <<file, u_pc, u_devices, u_device, u_device_uid, quit_calls,
                   u_stdout, reports, raised>>
    /\ UNCHANGED pvars

\* send_device_message() on a user without device_uid: building the payload
\* raises AttributeError before the POST
SendWithoutDevice ==
    /\ u_pc = "started"
    /\ invocations < MaxSends
    /\ ~IsSome(u_device_uid)
    /\ invocations' = invocations + 1
    /\ raised' = Append(raised, "AttributeError")
    /\ UNCHANGED <<file, u_pc, u_devices, u_device, u_device_uid, quit_calls,
                   u_stdout, posts, reports>>
    /\ UNCHANGED pvars

ReplayNext ==
    \/ OnStartLoadError
    \/ OnStartNoDevices
    \/ OnStartPick
    \/ SendDeviceMessage
    \/ SendWithoutDevice

ReplayInit == PIdle /\ UInit

SpecReplay == ReplayInit /\ [][ReplayNext]_vars

\* the replayer is not running
UIdle ==
    /\ file = None
    /\ u_pc = "off"
    /\ u_devices = None
    /\ u_device = None
    /\ u_device_uid = None
    /\ quit_calls = 0
    /\ u_stdout = <<>>
    /\ posts = <<>>
    /\ reports = <<>>
    /\ invocations = 0
    /\ raised = <<>>

Init == PInit /\ UIdle

Spec == Init /\ [][Next]_vars

\* create_devices(url, 1, 100) as main() calls it under --org 1 --num 100:
\* a run long enough to reach the progress line
ProgressInit ==
    /\ pc = "create_devices"
    /\ args = [num |-> ProgressEvery, org |-> Some(1)]
    /\ org_id = Some(1)
    /\ i = 0
    /\ devices = <<>>
    /\ artifact = None
    /\ stdout = <<Line("setting_up", ProgressEvery, 0)>>
    /\ trace = <<>>
    /\ exit_code = None
    /\ UIdle

ProgressNext ==
    \/ CreateDevicesEnter
    \/ DeviceFailed
    \/ DeviceSucceeded
    \/ SaveDevices
    \/ MainComplete

SpecProgress == ProgressInit /\ [][ProgressNext]_vars

\* ------------------------------------------------------------------ claims
IsDevicePost(e) == e.op = "POST" /\ e.url = "devices"
IsOrgPost(e) == e.op = "POST" /\ e.url = "organizations"
DeviceExchanges == SelectSeq(trace, IsDevicePost)
OrgExchanges == SelectSeq(trace, IsOrgPost)
Answered200or201(e) == e.status \in {200, 201}
Answered2xx(e) == e.status \in 200..299
ProgressLines == SelectSeq(stdout, LAMBDA l : l.kind = "progress")
FailureLines == SelectSeq(stdout, LAMBDA l : l.kind = "device_failed")

\* C1: every record appended for a request answered 200/201, and the artifact
\* written from them, has the uid and the serial of that request's payload,
\* whatever uid the response body carries.
C1_RecordMatchesRequest ==
    LET ok == SelectSeq(DeviceExchanges, Answered200or201) IN
    /\ Len(devices) = Len(ok)
    /\ \A k \in 1..Len(devices) :
        /\ devices[k].uid = ok[k].payload.uid
        /\ devices[k].serial = ok[k].payload.serial
    /\ IsSome(artifact) => Get(artifact) = devices

\* C2 as stated: once the artifact is written, its length is the number of
\* device-creation responses with a status in 200..299.
C2_LengthIsCountOf2xx ==
    IsSome(artifact) =>
        Len(Get(artifact)) = Len(SelectSeq(DeviceExchanges, Answered2xx))

\* C2 amended: once the artifact is written, one request per requested device
\* has been answered and the artifact's length is the number of responses with
\* status 200 or 201, at most the requested count.
C2_LengthIsCountOf200or201 ==
    IsSome(artifact) =>
        /\ Len(DeviceExchanges) = args.num
        /\ Len(Get(artifact)) = Len(SelectSeq(DeviceExchanges, Answered200or201))
        /\ Len(Get(artifact)) <= args.num

\* C2 witness: an artifact shorter than the requested count, written after a
\* 202 response and at least one accepted one.
C2_Witness ==
    /\ IsSome(artifact)
    /\ Len(Get(artifact)) > 0
    /\ Len(Get(artifact)) < args.num
    /\ \E k \in 1..Len(DeviceExchanges) : DeviceExchanges[k].status = 202

RECURSIVE DigitsValue(_)
DigitsValue(ds) ==
    IF ds = <<>> THEN 0
    ELSE 10 * DigitsValue(SubSeq(ds, 1, Len(ds) - 1)) + ds[Len(ds)]

\* s is LOADTEST followed by n in four decimal digits (n below 10000)
IsSerialOf(s, n) ==
    /\ Len(s) = 5
    /\ s[1] = "LOADTEST"
    /\ \A k \in 2..5 : s[k] \in 0..9
    /\ DigitsValue(Tail(s)) = n

\* C3: the k-th device request is the one for index k-1 (one per index, in
\* order, no retry), a finished run has issued all args.num of them, the
\* records are those of the indices answered 200/201, in order, with serial
\* LOADTEST + index in 4 digits, pairwise distinct, and the failure lines name
\* the failed indices, 1-based, in order.
C3_OneRecordPerSucceededIndex ==
    LET ex == DeviceExchanges
        idx == [k \in 1..Len(ex) |-> k - 1]
        kept == SelectSeq(idx, LAMBDA n : ex[n + 1].status \in {200, 201})
        lost == SelectSeq(idx, LAMBDA n : ex[n + 1].status \notin {200, 201})
    IN
    /\ Len(ex) = i
    /\ i <= args.num
    /\ \A k \in 1..Len(ex) : IsSerialOf(ex[k].payload.serial, k - 1)
    /\ pc \in {"returned", "done"} => Len(ex) = args.num /\ artifact = Some(devices)
    /\ IsSome(artifact) => pc \in {"returned", "done"}
    /\ Len(devices) = Len(kept)
    /\ \A k \in 1..Len(devices) : IsSerialOf(devices[k].serial, kept[k])
    /\ \A k, m \in 1..Len(devices) : k # m => devices[k].serial # devices[m].serial
    /\ Len(FailureLines) = Len(lost)
    /\ \A k \in 1..Len(lost) : FailureLines[k].n = lost[k] + 1

\* C3 witness: 5 devices requested, the 3rd request answered 500, the run
\* done with 4 records and a failure line for device 3.
C3_Witness ==
    /\ pc = "done"
    /\ args.num = 5
    /\ Len(DeviceExchanges) = 5
    /\ DeviceExchanges[3].status = 500
    /\ Len(Get(artifact)) = 4
    /\ FailureLines = <<Line("device_failed", 3, 500)>>

\* the fatal path of organization creation
OrgFatal ==
    /\ pc = "exited"
    /\ IsSome(exit_code) /\ Get(exit_code) # 0
    /\ DeviceExchanges = <<>>
    /\ artifact = None

\* the run goes on to device creation with the organization id
OrgProceeds(id) ==
    /\ pc \in {"create_devices", "loop", "returned", "done"}
    /\ exit_code \in {None, Some(0)}
    /\ org_id = Some(id)
    /\ \A k \in 1..Len(DeviceExchanges) :
        DeviceExchanges[k].payload.organization_id = id

\* C4 as stated: without --org, a non-2xx organization response is fatal
\* (nonzero exit, no device request, no artifact) and any 2xx response makes
\* the run proceed with the response's id.
C4_FatalUnless2xx ==
    (args.org = None /\ OrgExchanges # <<>>) =>
        IF ~Answered2xx(OrgExchanges[1])
        THEN OrgFatal
        ELSE OrgProceeds(OrgExchanges[1].body.id)

\* C4 amended: without --org, an organization response other than 200/201 is
\* fatal (nonzero exit, no device request, no artifact) and a 200 or 201
\* response makes the run proceed with the response's id.
C4_FatalUnless200or201 ==
    (args.org = None /\ OrgExchanges # <<>>) =>
        IF ~Answered200or201(OrgExchanges[1])
        THEN OrgFatal
        ELSE OrgProceeds(OrgExchanges[1].body.id)

\* C4 witness: without --org the organization request was answered 202 and
\* the process has exited with status 1.
C4_Witness ==
    /\ args.org = None
    /\ OrgExchanges # <<>>
    /\ OrgExchanges[1].status = 202
    /\ pc = "exited"
    /\ exit_code = Some(1)

\* C5: with --org given (0 included) no organization request is issued and
\* every device carries the given id; without it the organization request is
\* the first request; at most one organization request per run.
C5_OrgSkippedWhenSupplied ==
    /\ IsSome(args.org) =>
        /\ OrgExchanges = <<>>
        /\ \A k \in 1..Len(DeviceExchanges) :
            DeviceExchanges[k].payload.organization_id = Get(args.org)
    /\ (args.org = None /\ DeviceExchanges # <<>>) =>
        /\ Len(OrgExchanges) = 1
        /\ IsOrgPost(trace[1])
    /\ Len(OrgExchanges) <= 1

\* C8: every device request, answered with success or not, is directly
\* followed by one pause, and no two pauses are adjacent.
C8_PauseAfterEveryAttempt ==
    \A k \in 1..Len(trace) :
        /\ IsDevicePost(trace[k]) => (k < Len(trace) /\ trace[k + 1] = Sleep(PauseMs))
        /\ (trace[k].op = "sleep" /\ k < Len(trace)) => trace[k + 1].op # "sleep"

\* C9: the number of progress lines printed so far is the number of created
\* devices divided by 100, rounded down.
C9_ProgressEveryHundredSuccesses ==
    Len(ProgressLines) = Len(devices) \div 100

FailureReports == SelectSeq(reports, LAMBDA r : r.kind = "failure")
SendFailedLines == SelectSeq(u_stdout, LAMBDA l : l.kind = "send_failed")
StartupFailed == u_pc = "started" /\ (file.kind # "json" \/ file.data = <<>>)

\* C6: a response is reported as success exactly when its status is 200;
\* every other one is reported as a failure and logged with the device's
\* serial, the status and the body.
C6_SuccessOnlyOn200 ==
    /\ Len(reports) = Len(posts)
    /\ \A k \in 1..Len(reports) :
        /\ reports[k].kind \in {"success", "failure"}
        /\ reports[k].kind = "success" <=> reports[k].status = 200
    /\ Len(SendFailedLines) = Len(FailureReports)
    /\ \A k \in 1..Len(FailureReports) :
        /\ SendFailedLines[k].status = FailureReports[k].status
        /\ SendFailedLines[k].text = FailureReports[k].text
        /\ SendFailedLines[k].serial = Get(u_device).serial

\* C6 witness: a 201 response reported as a failure after a 200 reported as
\* success.
C6_Witness ==
    /\ Len(reports) >= 2
    /\ reports[1] = Report("success", 200, "ok")
    /\ reports[2] = Report("failure", 201, "created")
    /\ SendFailedLines # <<>>

\* C7: after a startup that found the file missing, unreadable or empty, an
\* error is logged, the harness has been asked to quit, no device is selected
\* and no POST is issued, however often the send task is invoked.
C7_NoPostAfterFailedStartup ==
    StartupFailed =>
        /\ quit_calls = 1
        /\ u_stdout # <<>>
        /\ u_stdout[1].kind \in {"error_loading", "no_devices"}
        /\ u_device = None
        /\ u_device_uid = None
        /\ posts = <<>>
        /\ reports = <<>>

\* C7 witness: the file held an empty list and the harness has invoked the
\* send task twice since.
C7_Witness ==
    /\ StartupFailed
    /\ file.kind = "json"
    /\ invocations = 2

C10_Holds ==
    IsSome(u_device_uid) =>
        /\ IsSome(u_device)
        /\ \E k \in 1..Len(file.data) : file.data[k] = Get(u_device)
        /\ Get(u_device_uid) = Get(u_device).uid
        /\ Len(posts) = invocations
        /\ \A k \in 1..Len(posts) :
            /\ posts[k].device_uid = Get(u_device).uid
            /\ posts[k].sent_via = "locust-test"

\* C10: after a successful startup the selected device is a record of the
\* file and never changes; every envelope posted carries its uid and sent_via
\* "locust-test", and every invocation has issued exactly one POST.
C10_DeviceFixed ==
    /\ []C10_Holds
    /\ [][IsSome(u_device) => (u_device' = u_device /\ u_device_uid' = u_device_uid)]_vars
    /\ [][invocations' = invocations + 1 => Len(posts') = Len(posts) + 1
            \/ ~IsSome(u_device_uid)]_vars

\* C10 witness: the second record of a three-record file was picked and two
\* envelopes were posted, the first of them rejected.
C10_Witness ==
    /\ Len(file.data) = 3
    /\ u_device = Some(file.data[2])
    /\ invocations = 2
    /\ Len(posts) = 2
    /\ reports[1].kind = "failure"

====
